---- MODULE Spec2Model ----
(***************************************************************************)
(* A model of the rio binary framing layer (src/rio.go): the header,       *)
(* options, record, block and footer codecs, driven through an in-memory   *)
(* sink (bytes.Buffer) and an in-memory source (bytes.Reader).             *)
(*                                                                         *)
(* Values are 32-bit words held in the non-negative range of TLC's         *)
(* integers (below 2^31); a byte is a number in 0..255 and a byte string   *)
(* is a sequence of bytes.                                                 *)
(***************************************************************************)
EXTENDS Integers, Sequences, FiniteSets, TLC

(***************************************************************************)
(* Bounds of the model.                                                    *)
(***************************************************************************)
MaxNameLen == 5   \* longest Name, in bytes
MaxDataLen == 4   \* longest Block Data, in bytes
MaxHdrLen  == 5   \* largest free-standing Header.Len tried on a Block
MaxKind    == 3   \* largest compressor kind tried
LevelSpan  == 2   \* levels tried: -LevelSpan .. 14 + LevelSpan
MaxTrail   == 1   \* bytes that may follow a unit in the source
MaxLead    == 2   \* bytes that may precede a unit in the source

(***************************************************************************)
(* Constants of the program.                                               *)
(***************************************************************************)
gAlign     == 3
gMaskCodec == 4095
gMaskLevel == 61440
gMaskCompr == 2147418112  \* 0xffff0000 without the top bit: kinds stay below 2^15

recFrame == <<171, 173, 202, 254>>
blkFrame == <<222, 173, 190, 239>>
ftrFrame == <<202, 254, 186, 190>>

\* compress/flate.DefaultCompression, the level that asks for the codec's default
flate_DefaultCompression == -1

\* CompressorKind values: the unspecified kind and the standard (zlib) codec
CompressDefault == 0
CompressZlib    == 3

Byte  == 0..255
Bytes == Seq(Byte)

(***************************************************************************)
(* Bit operations on non-negative integers.                                *)
(***************************************************************************)
RECURSIVE BitAnd(_, _)
BitAnd(a, b) ==
  IF a = 0 \/ b = 0 THEN 0
  ELSE (a % 2) * (b % 2) + 2 * BitAnd(a \div 2, b \div 2)

RECURSIVE BitOr(_, _)
BitOr(a, b) ==
  IF a = 0 THEN b
  ELSE IF b = 0 THEN a
  ELSE (IF a % 2 = 1 \/ b % 2 = 1 THEN 1 ELSE 0) + 2 * BitOr(a \div 2, b \div 2)

RECURSIVE Pow2(_)
Pow2(n) == IF n = 0 THEN 1 ELSE 2 * Pow2(n - 1)

Shl(a, n) == a * Pow2(n)
Shr(a, n) == a \div Pow2(n)

\* rioAlign: sz rounded up to the next multiple of four
rioAlign(sz) == sz + BitAnd(4 - BitAnd(sz, gAlign), gAlign)

Zeros(n) == [k \in 1..n |-> 0]

Take(s, n) == SubSeq(s, 1, n)

(***************************************************************************)
(* encoding/binary, little endian.                                         *)
(***************************************************************************)
\* binary.Write of a uint32: its four bytes, least significant first
PutUint32(v) ==
  << v % 256, (v \div 256) % 256, (v \div 65536) % 256, (v \div 16777216) % 256 >>

\* binary.Read of a uint32 from four bytes
Uint32(b) == b[1] + 256 * b[2] + 65536 * b[3] + 16777216 * b[4]

\* An int64 is held as its four 16-bit limbs, least significant first (two's
\* complement: -1 is four limbs of 0xffff).
\* binary.Write of an int64: eight bytes, least significant first
PutInt64(v) ==
  [k \in 1..8 |->
     IF k % 2 = 1 THEN v[(k + 1) \div 2] % 256 ELSE v[k \div 2] \div 256]

\* binary.Read of an int64 from eight bytes
Int64(b) == [j \in 1..4 |-> b[2 * j - 1] + 256 * b[2 * j]]

(***************************************************************************)
(* Errors.  nil, the two io sentinels, and the messages errorf builds (a   *)
(* new error value per call, so never equal to a sentinel).                *)
(***************************************************************************)
nil                 == "nil"
io_EOF              == "io.EOF"
io_ErrUnexpectedEOF == "io.ErrUnexpectedEOF"

errorf(msg) == msg

(***************************************************************************)
(* The source: a bytes.Reader over s, read position i (bytes consumed).    *)
(* Each read returns [n, bytes, i, err]: the count, the bytes copied into   *)
(* the buffer (the rest of the buffer keeps its zeros), the new position.  *)
(***************************************************************************)
\* (*bytes.Reader).Read into a buffer of len bytes
Reader_Read(s, i, len) ==
  IF i >= Len(s)
  THEN [n |-> 0, bytes |-> << >>, i |-> i, err |-> io_EOF]
  ELSE LET n == IF Len(s) - i < len THEN Len(s) - i ELSE len
       IN [n |-> n,
           bytes |-> SubSeq(s, i + 1, i + n),
           i |-> i + n,
           err |-> nil]

\* io.ReadFull into a buffer of len bytes: Read until full or an error;
\* io.EOF if nothing was read, io.ErrUnexpectedEOF after a partial read
io_ReadFull(s, i, len) ==
  IF len = 0
  THEN [n |-> 0, bytes |-> << >>, i |-> i, err |-> nil]
  ELSE LET r == Reader_Read(s, i, len)
       IN IF r.err # nil THEN r
          ELSE IF r.n = len THEN r
          ELSE [r EXCEPT !.err = io_ErrUnexpectedEOF]

\* binary.Read of a fixed-size value of len bytes: io.ReadFull, and on an
\* error the destination is not assigned
binary_Read(s, i, len) == io_ReadFull(s, i, len)

(***************************************************************************)
(* The sink: an io.Writer.  A codec issues its writes in order; each write *)
(* is [bytes, msg, checked]: msg is the error the codec returns when the   *)
(* sink returns an error for that write, and checked tells whether the     *)
(* codec compares the count the sink returns with the length it asked for. *)
(* A sink is [failAt, mode].  failAt = 0 is a sink that takes every write  *)
(* whole (a bytes.Buffer); failAt = k > 0 is a sink whose k-th Write       *)
(*   "reject"  : takes no byte and returns an error,                       *)
(*   "partial" : takes all bytes but the last and returns an error,        *)
(*   "short"   : takes all bytes but the last and returns a nil error.     *)
(* The result of an encode is [out, nwrites, err]: the bytes the sink      *)
(* holds, the number of writes issued, the error returned.                 *)
(***************************************************************************)
RECURSIVE Flatten(_)
Flatten(chunks) ==
  IF chunks = << >> THEN << >> ELSE Head(chunks) \o Flatten(Tail(chunks))

io_ErrClosedPipe == "io.ErrClosedPipe"
io_ErrShortWrite == "io.ErrShortWrite"

NoFail == [failAt |-> 0, mode |-> "accept"]
Modes  == {"reject", "partial", "short"}

\* the sinks an encode of these steps can meet: a write of no byte cannot
\* move fewer bytes than asked
Sinks(steps) ==
  {NoFail} \cup
  {w \in [failAt : 1..Len(steps), mode : Modes] :
     w.mode = "reject" \/ steps[w.failAt].bytes # << >>}

\* the k-th w.Write(b): the count and the error it returns
Writer_Write(w, k, b) ==
  IF w.failAt # k THEN [n |-> Len(b), err |-> nil]
  ELSE CASE w.mode = "reject"  -> [n |-> 0, err |-> io_ErrClosedPipe]
         [] w.mode = "partial" -> [n |-> Len(b) - 1, err |-> io_ErrShortWrite]
         [] w.mode = "short"   -> [n |-> Len(b) - 1, err |-> nil]

\* the writes from the k-th on, out being what the sink holds so far
RECURSIVE WriteFrom(_, _, _, _)
WriteFrom(steps, w, k, out) ==
  IF k > Len(steps)
  THEN [out |-> out, nwrites |-> Len(steps), err |-> nil]
  ELSE LET r    == Writer_Write(w, k, steps[k].bytes)
           out1 == out \o Take(steps[k].bytes, r.n)
       IN IF r.err # nil
          THEN [out |-> out1, nwrites |-> k, err |-> steps[k].msg]
          ELSE IF steps[k].checked /\ r.n # Len(steps[k].bytes)
          THEN [out |-> out1, nwrites |-> k,
                err |-> errorf("rio: wrote too few bytes")]
          ELSE WriteFrom(steps, w, k + 1, out1)

WriteSteps(steps, w) == WriteFrom(steps, w, 1, << >>)

\* a write whose count is dropped (binary.Write, _, err = w.Write), and a
\* write whose count is compared with the length (nb, err = w.Write)
Step(b, m)        == [bytes |-> b, msg |-> m, checked |-> FALSE]
CheckedStep(b, m) == [bytes |-> b, msg |-> m, checked |-> TRUE]

\* the header written frame first
HeaderSteps_FrameFirst(hdr, m) ==
  << Step(hdr.Frame, m), Step(PutUint32(hdr.Len), m) >>

\* the two steps every unit starts with, failing with the unit's own message
HeaderSteps(hdr, m) == << Step(PutUint32(hdr.Len), m), Step(hdr.Frame, m) >>

(***************************************************************************)
(* rioHeader                                                               *)
(***************************************************************************)
rioHeader_Steps(hdr) ==
  << Step(PutUint32(hdr.Len), errorf("rio: write header length failed")),
     Step(hdr.Frame, errorf("rio: write header frame failed")) >>

rioHeader_RioMarshal(hdr, w) == WriteSteps(rioHeader_Steps(hdr), w)

\* rioHeader.RioUnmarshal returning the frame read's error as it is
rioHeader_RioUnmarshal_RawFrameError(hdr, s, i) ==
  LET r1 == binary_Read(s, i, 4)
  IN IF r1.err # nil
     THEN [obj |-> hdr, i |-> r1.i,
           err |-> IF r1.err = io_EOF THEN r1.err
                   ELSE errorf("rio: read header length failed")]
     ELSE LET hdr1 == [hdr EXCEPT !.Len = Uint32(r1.bytes)]
              r2 == binary_Read(s, r1.i, 4)
          IN IF r2.err # nil
             THEN [obj |-> hdr1, i |-> r2.i, err |-> r2.err]
             ELSE [obj |-> [hdr1 EXCEPT !.Frame = r2.bytes], i |-> r2.i,
                   err |-> nil]

\* Result [obj, i, err]: the header after the call, the source position.
rioHeader_RioUnmarshal(hdr, s, i) ==
  LET r1 == binary_Read(s, i, 4)
  IN IF r1.err # nil
     THEN [obj |-> hdr, i |-> r1.i,
           err |-> IF r1.err = io_EOF THEN r1.err
                   ELSE errorf("rio: read header length failed")]
     ELSE LET hdr1 == [hdr EXCEPT !.Len = Uint32(r1.bytes)]
              r2 == binary_Read(s, r1.i, 4)
          IN IF r2.err # nil
             THEN [obj |-> hdr1, i |-> r2.i,
                   err |-> errorf("rio: read header frame failed")]
             ELSE [obj |-> [hdr1 EXCEPT !.Frame = r2.bytes], i |-> r2.i,
                   err |-> nil]

(***************************************************************************)
(* Options                                                                 *)
(***************************************************************************)
CompressorKind(o) == Shr(BitAnd(o, gMaskCompr), 16)

CompressorLevel(o) ==
  LET lvl == Shr(BitAnd(o, gMaskLevel), 12)
  IN IF lvl = 15 THEN flate_DefaultCompression ELSE lvl

CompressorCodec(o) == BitAnd(o, gMaskCodec)

\* NewOptions with the upper clamp one too low (lvl >= 14)
NewOptions_ClampAt14(compr, lvl, codec) ==
  LET lvl1 == IF lvl <= flate_DefaultCompression \/ lvl >= 14 THEN 15 ELSE lvl
      compr1 == IF compr = CompressDefault THEN CompressZlib ELSE compr
  IN BitOr(BitOr(Shl(compr1, 16), Shl(lvl1, 12)), BitAnd(codec, gMaskCodec))

\* NewOptions without the upper clamp
NewOptions_NoUpperClamp(compr, lvl, codec) ==
  LET lvl1 == IF lvl <= flate_DefaultCompression THEN 15 ELSE lvl
      compr1 == IF compr = CompressDefault THEN CompressZlib ELSE compr
  IN BitOr(BitOr(Shl(compr1, 16), Shl(lvl1, 12)), BitAnd(codec, gMaskCodec))

NewOptions(compr, lvl, codec) ==
  LET lvl1 == IF lvl <= flate_DefaultCompression \/ lvl >= 15 THEN 15 ELSE lvl
      compr1 == IF compr = CompressDefault THEN CompressZlib ELSE compr
  IN BitOr(BitOr(Shl(compr1, 16), Shl(lvl1, 12)), BitAnd(codec, gMaskCodec))

(***************************************************************************)
(* rioRecord                                                               *)
(***************************************************************************)
rioRecord_Steps(rec) ==
  LET name == rec.Name
      size == rioAlign(Len(name))
  IN HeaderSteps(rec.Header, errorf("rio: write record header failed"))
     \o << Step(PutUint32(rec.Options), errorf("rio: write record options failed")),
           Step(PutUint32(rec.CLen), errorf("rio: write record compr-len failed")),
           Step(PutUint32(rec.XLen), errorf("rio: write record len failed")),
           Step(PutUint32(Len(name)), errorf("rio: write record name-len failed")),
           Step(name, errorf("rio: write record name failed")) >>
     \o (IF size > Len(name)
         THEN << Step(Zeros(size - Len(name)),
                      errorf("rio: write record name-padding failed")) >>
         ELSE << >>)

rioRecord_RioMarshal(rec, w) == WriteSteps(rioRecord_Steps(rec), w)

rioRecord_unmarshalHeader(rec, s, i) ==
  LET h == rioHeader_RioUnmarshal(rec.Header, s, i)
      rec1 == [rec EXCEPT !.Header = h.obj]
  IN IF h.err # nil
     THEN [obj |-> rec1, i |-> h.i,
           err |-> IF h.err = io_EOF \/ h.err = io_ErrUnexpectedEOF THEN h.err
                   ELSE errorf("rio: read record header failed")]
     ELSE IF rec1.Header.Frame # recFrame
     THEN [obj |-> rec1, i |-> h.i,
           err |-> errorf("rio: read record header corrupted")]
     ELSE [obj |-> rec1, i |-> h.i, err |-> nil]

\* rioRecord.unmarshalData assigning Name before it looks at the error
rioRecord_unmarshalName_AssignFirst(rec, s, i, nsize) ==
  LET r == Reader_Read(s, i, rioAlign(nsize))
      buf == r.bytes \o Zeros(rioAlign(nsize) - r.n)
      rec1 == [rec EXCEPT !.Name = Take(buf, nsize)]
  IN IF r.err # nil
     THEN [obj |-> rec1, i |-> r.i, err |-> errorf("rio: read record name failed")]
     ELSE [obj |-> rec1, i |-> r.i, err |-> nil]

\* the name: one Read into a buffer of rioAlign(nsize) bytes, its count ignored
rioRecord_unmarshalName(rec, s, i, nsize) ==
  LET r == Reader_Read(s, i, rioAlign(nsize))
      buf == r.bytes \o Zeros(rioAlign(nsize) - r.n)
  IN IF r.err # nil
     THEN [obj |-> rec, i |-> r.i, err |-> errorf("rio: read record name failed")]
     ELSE [obj |-> [rec EXCEPT !.Name = Take(buf, nsize)], i |-> r.i,
           err |-> nil]

rioRecord_unmarshalData(rec, s, i) ==
  LET r1 == binary_Read(s, i, 4)
  IN IF r1.err # nil
     THEN [obj |-> rec, i |-> r1.i, err |-> errorf("rio: read record options failed")]
     ELSE
  LET rec1 == [rec EXCEPT !.Options = Uint32(r1.bytes)]
      r2 == binary_Read(s, r1.i, 4)
  IN IF r2.err # nil
     THEN [obj |-> rec1, i |-> r2.i, err |-> errorf("rio: read record compr-len failed")]
     ELSE
  LET rec2 == [rec1 EXCEPT !.CLen = Uint32(r2.bytes)]
      r3 == binary_Read(s, r2.i, 4)
  IN IF r3.err # nil
     THEN [obj |-> rec2, i |-> r3.i, err |-> errorf("rio: read record len failed failed")]
     ELSE
  LET rec3 == [rec2 EXCEPT !.XLen = Uint32(r3.bytes)]
      r4 == binary_Read(s, r3.i, 4)
  IN IF r4.err # nil
     THEN [obj |-> rec3, i |-> r4.i, err |-> errorf("rio: read record name-len failed")]
     ELSE rioRecord_unmarshalName(rec3, s, r4.i, Uint32(r4.bytes))

rioRecord_RioUnmarshal(rec, s, i) ==
  LET h == rioRecord_unmarshalHeader(rec, s, i)
  IN IF h.err # nil THEN h ELSE rioRecord_unmarshalData(h.obj, s, h.i)

(***************************************************************************)
(* rioBlock                                                                *)
(***************************************************************************)
rioBlock_Steps(blk) ==
  LET name == blk.Name
      nsize == rioAlign(Len(name))
      dsize == rioAlign(Len(blk.Data))
  IN HeaderSteps(blk.Header, errorf("rio: write block header failed"))
     \o << Step(PutUint32(blk.Version), errorf("rio: write block version failed")),
           Step(PutUint32(Len(name)), errorf("rio: write block name-len failed")),
           CheckedStep(name, errorf("rio: write block name failed")) >>
     \o (IF nsize > Len(name)
         THEN << CheckedStep(Zeros(nsize - Len(name)),
                      errorf("rio: write block name-padding failed")) >>
         ELSE << >>)
     \o << CheckedStep(blk.Data, errorf("rio: write block data failed")) >>
     \o (IF dsize > Len(blk.Data)
         THEN << CheckedStep(Zeros(dsize - Len(blk.Data)),
                      errorf("rio: write block data-padding failed")) >>
         ELSE << >>)

rioBlock_RioMarshal(blk, w) == WriteSteps(rioBlock_Steps(blk), w)

\* rioBlock.unmarshalData keeping the padding: Data is the whole buffer
rioBlock_unmarshalData_NoTrim(blk, s, i) ==
  LET r == io_ReadFull(s, i, rioAlign(blk.Header.Len))
  IN IF r.err # nil
     THEN [obj |-> blk, i |-> r.i, err |-> errorf("rio: read block data failed")]
     ELSE [obj |-> [blk EXCEPT !.Data = r.bytes], i |-> r.i, err |-> nil]

\* rioBlock.unmarshalData taking the data length to be what is left of
\* Header.Len after the version and the padded name
rioBlock_unmarshalData_Derived(blk, s, i) ==
  LET rest == blk.Header.Len - 4 - rioAlign(Len(blk.Name))
      dlen == IF rest < 0 THEN 0 ELSE rest
      r == io_ReadFull(s, i, rioAlign(dlen))
  IN IF r.err # nil
     THEN [obj |-> blk, i |-> r.i, err |-> errorf("rio: read block data failed")]
     ELSE [obj |-> [blk EXCEPT !.Data = Take(r.bytes, dlen)], i |-> r.i,
           err |-> nil]

\* the data: io.ReadFull of rioAlign(Header.Len) bytes, cut to Header.Len
rioBlock_unmarshalData(blk, s, i) ==
  LET r == io_ReadFull(s, i, rioAlign(blk.Header.Len))
  IN IF r.err # nil
     THEN [obj |-> blk, i |-> r.i, err |-> errorf("rio: read block data failed")]
     ELSE [obj |-> [blk EXCEPT !.Data = Take(r.bytes, blk.Header.Len)],
           i |-> r.i, err |-> nil]

rioBlock_RioUnmarshal(blk, s, i) ==
  LET h == rioHeader_RioUnmarshal(blk.Header, s, i)
      blk0 == [blk EXCEPT !.Header = h.obj]
  IN IF h.err # nil
     THEN [obj |-> blk0, i |-> h.i,
           err |-> IF h.err = io_EOF \/ h.err = io_ErrUnexpectedEOF THEN h.err
                   ELSE errorf("rio: read block header failed")]
     ELSE IF blk0.Header.Frame # blkFrame
     THEN [obj |-> blk0, i |-> h.i,
           err |-> errorf("rio: read block header corrupted")]
     ELSE
  LET r1 == binary_Read(s, h.i, 4)
  IN IF r1.err # nil
     THEN [obj |-> blk0, i |-> r1.i, err |-> errorf("rio: read block version failed")]
     ELSE
  LET blk1 == [blk0 EXCEPT !.Version = Uint32(r1.bytes)]
      r2 == binary_Read(s, r1.i, 4)
  IN IF r2.err # nil
     THEN [obj |-> blk1, i |-> r2.i, err |-> errorf("rio: read block name-len failed")]
     ELSE
  LET nsize == Uint32(r2.bytes)
      r3 == io_ReadFull(s, r2.i, rioAlign(nsize))
  IN IF r3.err # nil
     THEN [obj |-> blk1, i |-> r3.i, err |-> errorf("rio: read block name failed")]
     ELSE rioBlock_unmarshalData([blk1 EXCEPT !.Name = Take(r3.bytes, nsize)], s, r3.i)

(***************************************************************************)
(* rioFooter                                                               *)
(***************************************************************************)
rioFooter_Steps(ftr) ==
  HeaderSteps(ftr.Header, errorf("rio: write footer header failed"))
  \o << Step(PutInt64(ftr.Meta), errorf("rio: write footer meta failed")) >>

rioFooter_RioMarshal(ftr, w) == WriteSteps(rioFooter_Steps(ftr), w)

\* rioFooter.unmarshalHeader without the frame comparison
rioFooter_unmarshalHeader_NoFrameCheck(ftr, s, i) ==
  LET h == rioHeader_RioUnmarshal(ftr.Header, s, i)
      ftr1 == [ftr EXCEPT !.Header = h.obj]
  IN IF h.err # nil
     THEN [obj |-> ftr1, i |-> h.i,
           err |-> IF h.err = io_EOF THEN h.err
                   ELSE errorf("rio: read footer header failed")]
     ELSE [obj |-> ftr1, i |-> h.i, err |-> nil]

rioFooter_unmarshalHeader(ftr, s, i) ==
  LET h == rioHeader_RioUnmarshal(ftr.Header, s, i)
      ftr1 == [ftr EXCEPT !.Header = h.obj]
  IN IF h.err # nil
     THEN [obj |-> ftr1, i |-> h.i,
           err |-> IF h.err = io_EOF THEN h.err
                   ELSE errorf("rio: read footer header failed")]
     ELSE IF ftr1.Header.Frame # ftrFrame
     THEN [obj |-> ftr1, i |-> h.i,
           err |-> errorf("rio: read footer header corrupted")]
     ELSE [obj |-> ftr1, i |-> h.i, err |-> nil]

rioFooter_unmarshalData(ftr, s, i) ==
  LET r == binary_Read(s, i, 8)
  IN IF r.err # nil
     THEN [obj |-> ftr, i |-> r.i, err |-> errorf("rio: read footer meta failed")]
     ELSE [obj |-> [ftr EXCEPT !.Meta = Int64(r.bytes)], i |-> r.i, err |-> nil]

\* rioFooter.RioUnmarshal on a reader that was rewound to the first byte of
\* the source instead of being left where the caller positioned it
rioFooter_RioUnmarshal_FromStart(ftr, s, i) ==
  LET h == rioFooter_unmarshalHeader(ftr, s, 0)
  IN IF h.err # nil THEN h ELSE rioFooter_unmarshalData(h.obj, s, h.i)

rioFooter_RioUnmarshal(ftr, s, i) ==
  LET h == rioFooter_unmarshalHeader(ftr, s, i)
  IN IF h.err # nil THEN h ELSE rioFooter_unmarshalData(h.obj, s, h.i)

(***************************************************************************)
(* The values the model draws its inputs from.                             *)
(***************************************************************************)
Frames == {recFrame, blkFrame, ftrFrame}

\* the frame of a header as a caller leaves it: the unit's marker, or the
\* zero value of a header that was never filled in
noFrame == <<0, 0, 0, 0>>
HeadersOf(frame) == [Len : {0, 16909060}, Frame : {frame, noFrame}]

\* names "", "a", "ab", ... and data whose fourth byte is zero
Names == {[k \in 1..n |-> 96 + k] : n \in 0..MaxNameLen}
Datas == {[k \in 1..n |-> (64 * k) % 256] : n \in 0..MaxDataLen}

\* 0 and 0x01020304: four different bytes, so byte order shows
Words == {0, 16909060}

\* (CLen, XLen) of an empty record and of a compressed one
RecLens == {<<0, 0>>, <<16909060, 84281096>>}

OptionWords == {NewOptions(CompressDefault, 0, 0), NewOptions(1, 9, 1)}

\* 0, 1, -1, 0x0102030405060708, 2^32, the largest and the smallest int64
Metas ==
  { <<0, 0, 0, 0>>, <<1, 0, 0, 0>>, <<65535, 65535, 65535, 65535>>,
    <<1800, 1286, 772, 258>>, <<0, 0, 1, 0>>,
    <<65535, 65535, 65535, 32767>>, <<0, 0, 0, 32768>> }

\* the bytes that may come before a unit in a stream
Leads == {[k \in 1..n |-> b] : n \in 1..MaxLead, b \in {0, 190}}

\* the header length the block format note prescribes for encode
BlockSpecLen(name, data) == 4 + rioAlign(Len(name)) + rioAlign(Len(data))

Headers == [Len : Words, Frame : Frames \cup {noFrame}]

Records ==
  {[Header |-> h, Options |-> o, CLen |-> l[1], XLen |-> l[2], Name |-> n] :
     h \in HeadersOf(recFrame), o \in OptionWords, l \in RecLens, n \in Names}

Blocks ==
  {[Header |-> [Len |-> l, Frame |-> f], Version |-> v, Name |-> n, Data |-> d] :
     l \in 0..MaxHdrLen, f \in {blkFrame, noFrame}, v \in Words, n \in Names, d \in Datas}
  \cup
  {[Header |-> [Len |-> BlockSpecLen(n, d), Frame |-> f], Version |-> v,
    Name |-> n, Data |-> d] :
     f \in {blkFrame, noFrame}, v \in Words, n \in Names, d \in Datas}

Footers == [Header : HeadersOf(ftrFrame), Meta : Metas]

\* the objects a decode starts from: a fresh (zero) value, or one in use
ZeroHeader == [Len |-> 0, Frame |-> <<0, 0, 0, 0>>]
UsedHeader == [Len |-> 4660, Frame |-> <<1, 2, 3, 4>>]

ZeroRecord ==
  [Header |-> ZeroHeader, Options |-> 0, CLen |-> 0, XLen |-> 0, Name |-> << >>]
UsedRecord ==
  [Header |-> UsedHeader, Options |-> 4661, CLen |-> 4662, XLen |-> 4663,
   Name |-> <<120, 121>>]

ZeroBlock == [Header |-> ZeroHeader, Version |-> 0, Name |-> << >>, Data |-> << >>]
UsedBlock ==
  [Header |-> UsedHeader, Version |-> 4664, Name |-> <<120, 121>>,
   Data |-> <<9, 9, 9>>]

ZeroFooter == [Header |-> ZeroHeader, Meta |-> <<0, 0, 0, 0>>]
UsedFooter == [Header |-> UsedHeader, Meta |-> <<4665, 0, 0, 0>>]

None == [none |-> TRUE]

(***************************************************************************)
(* State.                                                                  *)
(***************************************************************************)
VARIABLES
  pc,      \* "idle", "encoded" (a unit is in the stream), "failed", "decoded"
  kind,    \* the unit encoded: "header", "record", "block", "footer"
  orig,    \* the object that was encoded
  enc,     \* the bytes the encode produced
  nwrites, \* the writes the encode issued to the sink
  sink,    \* the sink the encode wrote to
  lead,    \* the bytes of the source before the position the decode starts at
  stream,  \* the bytes the source holds from that position on
  tamper,  \* what happened to the stream since the encode
  dkind,   \* the decoder that ran
  pre,     \* the object decoded into, before the call
  dst,     \* the object decoded into, after the call
  pos,     \* the bytes the decode consumed from the source
  err      \* the error the last encode or decode returned

vars ==
  << pc, kind, orig, enc, nwrites, sink, lead, stream, tamper, dkind, pre, dst, pos, err >>

Init ==
  /\ pc = "idle"
  /\ kind = "none"
  /\ orig = None
  /\ enc = << >>
  /\ nwrites = 0
  /\ sink = NoFail
  /\ lead = << >>
  /\ stream = << >>
  /\ tamper = "none"
  /\ dkind = "none"
  /\ pre = None
  /\ dst = None
  /\ pos = 0
  /\ err = nil

\* an encode into a sink: the stream holds what the sink took; it is a unit
\* to decode when the sink took every write whole
Encoded(k, obj, w, res) ==
  /\ pc' = IF w = NoFail THEN "encoded" ELSE "failed"
  /\ kind' = k
  /\ orig' = obj
  /\ enc' = res.out
  /\ nwrites' = res.nwrites
  /\ sink' = w
  /\ stream' = res.out
  /\ err' = res.err
  /\ UNCHANGED << lead, tamper, dkind, pre, dst, pos >>

MarshalHeader ==
  /\ pc = "idle"
  /\ \E hdr \in Headers : \E w \in Sinks(rioHeader_Steps(hdr)) :
       Encoded("header", hdr, w, rioHeader_RioMarshal(hdr, w))

MarshalRecord ==
  /\ pc = "idle"
  /\ \E rec \in Records : \E w \in Sinks(rioRecord_Steps(rec)) :
       Encoded("record", rec, w, rioRecord_RioMarshal(rec, w))

MarshalBlock ==
  /\ pc = "idle"
  /\ \E blk \in Blocks : \E w \in Sinks(rioBlock_Steps(blk)) :
       Encoded("block", blk, w, rioBlock_RioMarshal(blk, w))

MarshalFooter ==
  /\ pc = "idle"
  /\ \E ftr \in Footers : \E w \in Sinks(rioFooter_Steps(ftr)) :
       Encoded("footer", ftr, w, rioFooter_RioMarshal(ftr, w))

\* the source holds only the first n bytes of the encoding
Truncate ==
  /\ pc = "encoded" /\ tamper = "none"
  /\ \E n \in 0..(Len(stream) - 1) : stream' = Take(stream, n)
  /\ tamper' = "truncated"
  /\ UNCHANGED << pc, kind, orig, enc, nwrites, sink, lead, dkind, pre, dst, pos, err >>

\* one byte of the frame marker (bytes 5..8 of the stream) is changed
FlipFrame ==
  /\ pc = "encoded" /\ tamper = "none"
  /\ \E p \in 5..8 : \E d \in {1, 128} :
       stream' = [stream EXCEPT ![p] = (@ + d) % 256]
  /\ tamper' = "flipped"
  /\ UNCHANGED << pc, kind, orig, enc, nwrites, sink, lead, dkind, pre, dst, pos, err >>

\* other bytes follow the unit in the source
Trail ==
  /\ pc = "encoded" /\ tamper = "none"
  /\ \E n \in 1..MaxTrail : stream' = stream \o [k \in 1..n |-> 238]
  /\ tamper' = "trailed"
  /\ UNCHANGED << pc, kind, orig, enc, nwrites, sink, lead, dkind, pre, dst, pos, err >>

\* the unit is at the end of a longer source, and the reader is positioned
\* at its first byte
Precede ==
  /\ pc = "encoded" /\ tamper = "none"
  /\ \E l \in Leads : lead' = l
  /\ tamper' = "preceded"
  /\ UNCHANGED << pc, kind, orig, enc, nwrites, sink, stream, dkind, pre, dst, pos, err >>

\* the whole source, and the position the decode starts at
Source == lead \o stream
Start  == Len(lead)

\* a decode from the source, positioned at the first byte of the stream
Decoded(k, before, res) ==
  /\ pc' = "decoded"
  /\ dkind' = k
  /\ pre' = before
  /\ dst' = res.obj
  /\ pos' = res.i - Start
  /\ err' = res.err
  /\ UNCHANGED << kind, orig, enc, nwrites, sink, lead, stream, tamper >>

UnmarshalHeader ==
  /\ pc = "encoded"
  /\ \E hdr \in {ZeroHeader, UsedHeader} :
       Decoded("header", hdr, rioHeader_RioUnmarshal(hdr, Source, Start))

UnmarshalRecord ==
  /\ pc = "encoded"
  /\ \E rec \in {ZeroRecord, UsedRecord} :
       Decoded("record", rec, rioRecord_RioUnmarshal(rec, Source, Start))

UnmarshalBlock ==
  /\ pc = "encoded"
  /\ \E blk \in {ZeroBlock, UsedBlock} :
       Decoded("block", blk, rioBlock_RioUnmarshal(blk, Source, Start))

UnmarshalFooter ==
  /\ pc = "encoded"
  /\ \E ftr \in {ZeroFooter, UsedFooter} :
       Decoded("footer", ftr, rioFooter_RioUnmarshal(ftr, Source, Start))

Reset ==
  /\ pc \in {"failed", "decoded"}
  /\ pc' = "idle"
  /\ kind' = "none"
  /\ orig' = None
  /\ enc' = << >>
  /\ nwrites' = 0
  /\ sink' = NoFail
  /\ lead' = << >>
  /\ stream' = << >>
  /\ tamper' = "none"
  /\ dkind' = "none"
  /\ pre' = None
  /\ dst' = None
  /\ pos' = 0
  /\ err' = nil

Next ==
  \/ MarshalHeader
  \/ MarshalRecord
  \/ MarshalBlock
  \/ MarshalFooter
  \/ Truncate
  \/ FlipFrame
  \/ Trail
  \/ Precede
  \/ UnmarshalHeader
  \/ UnmarshalRecord
  \/ UnmarshalBlock
  \/ UnmarshalFooter
  \/ Reset

Spec == Init /\ [][Next]_vars

(***************************************************************************)
(* NewOptions and the accessors, as a specification of their own: Init     *)
(* draws the arguments (held in orig), the one action makes the call and   *)
(* keeps the packed word in dst.                                           *)
(***************************************************************************)
Kinds  == 0..MaxKind
Levels == (0 - LevelSpan)..(14 + LevelSpan)
Codecs == 0..gMaskCodec

InitOptions ==
  /\ pc = "call"
  /\ kind = "options"
  /\ orig \in [compr : Kinds, lvl : Levels, codec : Codecs]
  /\ enc = << >>
  /\ nwrites = 0
  /\ sink = NoFail
  /\ lead = << >>
  /\ stream = << >>
  /\ tamper = "none"
  /\ dkind = "none"
  /\ pre = None
  /\ dst = None
  /\ pos = 0
  /\ err = nil

CallNewOptions ==
  /\ pc = "call"
  /\ pc' = "returned"
  /\ dst' = NewOptions(orig.compr, orig.lvl, orig.codec)
  /\ UNCHANGED << kind, orig, enc, nwrites, sink, lead, stream, tamper, dkind, pre, pos,
                  err >>

NextOptions == CallNewOptions

SpecOptions == InitOptions /\ [][NextOptions]_vars

\* the level bits, bits [12:16) of the packed word
LevelBits(o) == Shr(BitAnd(o, gMaskLevel), 12)

(***************************************************************************)
(* Properties of the options word (checked under SpecOptions).             *)
(***************************************************************************)
Returned == pc = "returned"

\* C4, as stated: for every kind (the unspecified kind included), every level
\* in 0..14 and every codec in 0..4095 the accessors applied to
\* NewOptions(kind, level, codec) return exactly (kind, level, codec).
C4_AccessorsReturnArguments ==
  (Returned /\ orig.lvl \in 0..14 /\ orig.codec \in 0..4095) =>
    /\ CompressorKind(dst) = orig.compr
    /\ CompressorLevel(dst) = orig.lvl
    /\ CompressorCodec(dst) = orig.codec

\* C4, amended: for every level in 0..14 and codec in 0..4095 the accessors
\* return the level and the codec given, and the kind given unless it is the
\* unspecified kind, for which they return the standard codec (zlib).
C4_AccessorsReturnNormalizedKind ==
  (Returned /\ orig.lvl \in 0..14 /\ orig.codec \in 0..4095) =>
    /\ CompressorKind(dst) =
         (IF orig.compr = CompressDefault THEN CompressZlib ELSE orig.compr)
    /\ CompressorLevel(dst) = orig.lvl
    /\ CompressorCodec(dst) = orig.codec

C4_Witness ==
  /\ Returned
  /\ orig = [compr |-> CompressDefault, lvl |-> 14, codec |-> 4095]
  /\ CompressorKind(dst) = CompressZlib
  /\ CompressorLevel(dst) = 14
  /\ CompressorCodec(dst) = 4095

\* C5, as stated: level 0 and every level >= 15 is normalized to the default
\* sentinel: level bits 0xF, and CompressorLevel() is the codec default.
C5_ZeroAndHighLevelsAreDefault ==
  (Returned /\ (orig.lvl = 0 \/ orig.lvl >= 15)) =>
    /\ LevelBits(dst) = 15
    /\ CompressorLevel(dst) = flate_DefaultCompression

\* C5, amended: every level <= -1 (the "use the default" value) and every level
\* >= 15 is normalized to the default sentinel: level bits 0xF, and
\* CompressorLevel() is the codec default; the kind and codec bits are those
\* of the arguments.  Level 0 is kept as level 0.
C5_DefaultAndHighLevelsAreDefault ==
  /\ (Returned /\ (orig.lvl <= flate_DefaultCompression \/ orig.lvl >= 15)) =>
       /\ LevelBits(dst) = 15
       /\ CompressorLevel(dst) = flate_DefaultCompression
       /\ CompressorCodec(dst) = orig.codec
       /\ CompressorKind(dst) =
            (IF orig.compr = CompressDefault THEN CompressZlib ELSE orig.compr)
  /\ (Returned /\ orig.lvl = 0) =>
       (LevelBits(dst) = 0 /\ CompressorLevel(dst) = 0)

C5_Witness ==
  /\ Returned
  /\ orig = [compr |-> 1, lvl |-> 16, codec |-> 7]
  /\ LevelBits(dst) = 15
  /\ CompressorLevel(dst) = flate_DefaultCompression

(***************************************************************************)
(* Properties of the codecs (checked under Spec).                          *)
(***************************************************************************)
\* a decode of the untouched encoding by the decoder of the unit's own kind
DecodedBack(k) ==
  pc = "decoded" /\ kind = k /\ dkind = k /\ tamper = "none"

\* C1, as stated: a Record whose header carries the record marker, whatever
\* its Options, CLen, XLen and Name (the empty name included), encoded and
\* decoded from exactly the bytes produced, decodes without error to a Record
\* equal to the original field for field.
C1_RecordRoundTrip ==
  (DecodedBack("record") /\ orig.Header.Frame = recFrame) =>
    (err = nil /\ dst = orig)

\* the same for the Records whose Name is not empty
C1_RecordRoundTripNonEmptyName ==
  (DecodedBack("record") /\ orig.Header.Frame = recFrame /\ orig.Name # << >>) =>
    (err = nil /\ dst = orig)

StreamHdrLen  == Uint32(SubSeq(stream, 1, 4))
StreamNameLen == Uint32(SubSeq(stream, 13, 16))
StreamDataOff == 16 + rioAlign(StreamNameLen)

\* a Block decode that got as far as the data (the name was read)
BlockDataReached ==
  /\ pc = "decoded" /\ dkind = "block"
  /\ err \in {nil, errorf("rio: read block data failed")}

Units == {"record", "block", "footer"}

Marker(k) ==
  CASE k = "record" -> recFrame
    [] k = "block"  -> blkFrame
    [] k = "footer" -> ftrFrame

CorruptedError(k) ==
  CASE k = "record" -> errorf("rio: read record header corrupted")
    [] k = "block"  -> errorf("rio: read block header corrupted")
    [] k = "footer" -> errorf("rio: read footer header corrupted")

\* the frame bytes a decode reads from the source
StreamFrame == SubSeq(stream, 5, 8)

\* C6: when the four frame bytes read from the source differ from the marker
\* the decoder expects (a changed byte, or the encoding of another kind of
\* unit), Record, Block and Footer decode return their corruption error and
\* never succeed, whatever the rest of the input is.
C6_FrameMismatchIsCorruption ==
  (/\ pc = "decoded" /\ dkind \in Units
   /\ Len(stream) >= 8
   /\ StreamFrame # Marker(dkind)) =>
    err = CorruptedError(dkind)

\* a footer with one byte of its marker changed, given to the footer decoder
C6_Witness ==
  /\ pc = "decoded" /\ kind = "footer" /\ dkind = "footer"
  /\ tamper = "flipped"
  /\ orig.Header.Frame = ftrFrame
  /\ err = CorruptedError("footer")

\* C7: Header, Record, Block and Footer decode return io.EOF itself if and
\* only if the source has no byte left when the call starts; a source that
\* ends after 1 to 7 bytes of the header makes them return another error.
C7_CleanEOFOnlyOnEmptySource ==
  pc = "decoded" => ((err = io_EOF) <=> (Len(stream) = 0))

\* the source ends exactly after Length: the frame read meets io.EOF, and
\* the decode reports a failed header
C7_Witness ==
  /\ pc = "decoded" /\ kind = "record" /\ dkind = "record"
  /\ tamper = "truncated"
  /\ Len(stream) = 4
  /\ err = errorf("rio: read record header failed")

\* a unit whose header is the one its decoder accepts and decodes back
ValidUnit ==
  \/ kind = "record" /\ orig.Header.Frame = recFrame
  \/ kind = "block" /\ orig.Header.Frame = blkFrame
       /\ orig.Header.Len = Len(orig.Data)
  \/ kind = "footer" /\ orig.Header.Frame = ftrFrame

\* C8, as stated: decoding a non-empty strict prefix of a valid encoding of a
\* Record, Block or Footer returns an error; it never succeeds with a
\* shortened or zero-filled Name, Data or MetaOffset.
C8_TruncatedInputFails ==
  (/\ pc = "decoded" /\ tamper = "truncated"
   /\ dkind = kind /\ ValidUnit
   /\ Len(stream) > 0) =>
    err # nil

\* a Record decode that succeeds on a prefix cut inside the name, the Name
\* being the bytes that were there followed by zero bytes
C8_ZeroFilledName ==
  /\ pc = "decoded" /\ kind = "record" /\ dkind = "record"
  /\ tamper = "truncated"
  /\ orig.Header.Frame = recFrame
  /\ Len(orig.Name) = 5
  /\ Len(stream) = 26
  /\ err = nil
  /\ dst.Name = <<97, 98, 0, 0, 0>>

\* the same for Block and Footer alone, whose reads are all io.ReadFull
C8_TruncatedBlockOrFooterFails ==
  (/\ pc = "decoded" /\ tamper = "truncated"
   /\ dkind = kind /\ ValidUnit /\ kind \in {"block", "footer"}
   /\ Len(stream) > 0) =>
    err # nil

\* C9, as stated: when Record, Block or Footer decode returns an error, the
\* object decoded into is left as it was before the call.
C9_FailedDecodeLeavesObject ==
  (pc = "decoded" /\ dkind \in Units /\ err # nil) => dst = pre

\* what a failed decode leaves in a field: the value read from the source
\* when the bytes up to end were there (and, past the header, the frame was
\* the one expected), the value it had before the call otherwise
FrameAccepted == Len(stream) >= 8 /\ StreamFrame = Marker(dkind)

WordAt(off) == Uint32(SubSeq(stream, off + 1, off + 4))

HeaderAfterFailure ==
  [Len   |-> IF Len(stream) >= 4 THEN WordAt(0) ELSE pre.Header.Len,
   Frame |-> IF Len(stream) >= 8 THEN StreamFrame ELSE pre.Header.Frame]

ScalarAfterFailure(off, before) ==
  IF FrameAccepted /\ Len(stream) >= off + 4 THEN WordAt(off) ELSE before

\* C9, amended: when Record, Block or Footer decode returns an error, every
\* field that follows the failing step in wire order is left as it was before
\* the call, and every field read before the failing step holds the value
\* read from the source (the header length and frame first); the last field
\* of the unit (Record Name, Block Data, Footer MetaOffset) is never assigned
\* by a failed decode.
C9_FailedDecodeKeepsLaterFields ==
  (pc = "decoded" /\ dkind \in Units /\ err # nil) =>
    /\ dst.Header = HeaderAfterFailure
    /\ dkind = "record" =>
         /\ dst.Options = ScalarAfterFailure(8, pre.Options)
         /\ dst.CLen = ScalarAfterFailure(12, pre.CLen)
         /\ dst.XLen = ScalarAfterFailure(16, pre.XLen)
         /\ dst.Name = pre.Name
    /\ dkind = "block" =>
         /\ dst.Version = ScalarAfterFailure(8, pre.Version)
         /\ dst.Name =
              (IF /\ FrameAccepted /\ Len(stream) >= 16
                  /\ Len(stream) >= StreamDataOff
                 THEN SubSeq(stream, 17, 16 + StreamNameLen)
                 ELSE pre.Name)
         /\ dst.Data = pre.Data
    /\ dkind = "footer" => dst.Meta = pre.Meta

\* a record cut inside its name length: the scalars are the record's, the
\* name is the one the object had
C9_Witness ==
  /\ pc = "decoded" /\ kind = "record" /\ dkind = "record"
  /\ tamper = "truncated"
  /\ pre = UsedRecord
  /\ orig.Header.Frame = recFrame /\ orig.XLen = 84281096
  /\ err = errorf("rio: read record name-len failed")
  /\ dst.Header = orig.Header
  /\ dst.XLen = orig.XLen
  /\ dst.Name = UsedRecord.Name

\* align4 as the format note defines it
Align4(n) == n + ((4 - (n % 4)) % 4)

\* the field of length n at offset off of the encoding holds bytes, then
\* zeros up to align4(n) bytes
PaddedField(off, bytes) ==
  LET n == Len(bytes)
  IN /\ Len(enc) >= off + Align4(n)
     /\ SubSeq(enc, off + 1, off + n) = bytes
     /\ \A k \in (off + n + 1)..(off + Align4(n)) : enc[k] = 0

\* the encode half of C10: the padded fields and the total length
C10_EncodedFieldsArePadded ==
  /\ (pc = "encoded" /\ kind = "record") =>
       /\ PaddedField(24, orig.Name)
       /\ Len(enc) = 24 + Align4(Len(orig.Name))
       /\ Len(enc) % 4 = 0
  /\ (pc = "encoded" /\ kind = "block") =>
       /\ PaddedField(16, orig.Name)
       /\ PaddedField(16 + Align4(Len(orig.Name)), orig.Data)
       /\ Len(enc) = 16 + Align4(Len(orig.Name)) + Align4(Len(orig.Data))
       /\ Len(enc) % 4 = 0

\* C10, as stated: in the bytes Record or Block encode produces, a variable
\* length field of length n (Record Name, Block Name, Block Data) takes
\* align4(n) bytes, its n bytes and then zeros, so the encoding's length is a
\* multiple of 4; and decoding those bytes returns the field with its
\* original length n.
C10_PaddedFieldsKeepLength ==
  /\ C10_EncodedFieldsArePadded
  /\ (DecodedBack("record") /\ ValidUnit) =>
       (err = nil /\ Len(dst.Name) = Len(orig.Name))
  /\ (DecodedBack("block") /\ ValidUnit) =>
       /\ err = nil
       /\ Len(dst.Name) = Len(orig.Name)
       /\ Len(dst.Data) = Len(orig.Data)

(***************************************************************************)
(* C11: the footer is found from the end of the source.                    *)
(***************************************************************************)
\* the last ftrSize bytes of the source hold a footer: the source ends with
\* the bytes rioFooter.RioMarshal wrote for a footer whose header carries the
\* footer marker, after any number of other bytes
EndsWithFooter ==
  /\ kind = "footer" /\ tamper \in {"none", "preceded"}
  /\ orig.Header.Frame = ftrFrame

\* C11: an encoded Footer is exactly 16 bytes, 4 of length, 4 of frame and 8
\* of MetaOffset; and when a source of any length ends with an encoded
\* Footer, a decode positioned 16 bytes before its end succeeds, returns the
\* MetaOffset that was encoded, whatever int64 it is, and reads exactly
\* those 16 bytes, whatever the length of the source and the bytes before
\* the footer.
C11_FooterLocatedFromEnd ==
  /\ (pc \in {"encoded", "decoded"} /\ kind = "footer"
        => /\ Len(enc) = 16
           /\ SubSeq(enc, 1, 4) = PutUint32(orig.Header.Len)
           /\ SubSeq(enc, 5, 8) = orig.Header.Frame
           /\ Int64(SubSeq(enc, 9, 16)) = orig.Meta)
  /\ (pc = "decoded" /\ dkind = "footer" /\ EndsWithFooter
        => /\ Start = Len(Source) - 16
           /\ err = nil
           /\ dst.Meta = orig.Meta
           /\ pos = 16)

\* a footer holding the smallest int64 was decoded from the end of a source
\* that has two more bytes before it, into an object that held another value
C11_Witness ==
  /\ pc = "decoded" /\ dkind = "footer" /\ EndsWithFooter
  /\ tamper = "preceded" /\ Len(lead) = 2
  /\ orig.Meta = <<0, 0, 0, 32768>>
  /\ pre = UsedFooter
  /\ err = nil /\ dst.Meta = orig.Meta

(***************************************************************************)
(* C12: what a Record decode consumes.                                     *)
(***************************************************************************)
\* the bytes of a record up to the end of its padded name: 8 of header, 4 of
\* options, 4 of CLen, 4 of XLen, 4 of name length and the padded name
RecordSize(name) == 24 + Align4(Len(name))

\* C12, as stated: a Record decode that returns nil has consumed exactly
\* 24 + align4(NameLen) bytes of the source, whatever Header.Length, CLen and
\* XLen are, and has read no byte after them.
C12_RecordDecodeConsumesPaddedName ==
  (pc = "decoded" /\ dkind = "record" /\ err = nil) =>
    pos = RecordSize(dst.Name)

\* a Record decode never reads past the padded name, and reads all of it
\* when the source holds all of it
C12_RecordDecodeStopsAfterName ==
  (pc = "decoded" /\ dkind = "record" /\ err = nil) =>
    /\ pos <= RecordSize(dst.Name)
    /\ (tamper # "truncated" => pos = RecordSize(dst.Name))
    /\ (tamper = "trailed" => pos < Len(stream))

\* a Record decode that returned nil after 26 bytes, 6 fewer than the 32 of a
\* record with a 5-byte name
C12_ShortConsumption ==
  /\ pc = "decoded" /\ kind = "record" /\ dkind = "record"
  /\ err = nil
  /\ Len(dst.Name) = 5
  /\ pos = 26

(***************************************************************************)
(* C13: the header an encode writes.                                       *)
(***************************************************************************)
\* C13, as stated: the bytes written by Record, Block and Footer encode begin
\* with the header prescribed for the unit, whatever the object's Header
\* held: the frame is the unit's marker, and a Block's header length is
\* 4 + align4(len(Name)) + align4(len(Data)).
C13_EncodeWritesPrescribedHeader ==
  (pc = "encoded" /\ kind \in Units) =>
    /\ SubSeq(enc, 5, 8) = Marker(kind)
    /\ (kind = "block" =>
          Uint32(SubSeq(enc, 1, 4))
            = 4 + Align4(Len(orig.Name)) + Align4(Len(orig.Data)))

\* C13, amended: the bytes written by Record, Block and Footer encode begin
\* with the object's Header as it is held at the call, its Len then its
\* Frame; they hold the unit's marker, and for a Block the prescribed
\* length, exactly when the caller stored these in the Header.
C13_EncodeWritesHeldHeader ==
  (pc = "encoded" /\ kind \in Units) =>
    /\ Take(enc, 8) = PutUint32(orig.Header.Len) \o orig.Header.Frame
    /\ (SubSeq(enc, 5, 8) = Marker(kind) <=> orig.Header.Frame = Marker(kind))
    /\ (kind = "block" =>
          (Uint32(SubSeq(enc, 1, 4)) = BlockSpecLen(orig.Name, orig.Data)
             <=> orig.Header.Len = BlockSpecLen(orig.Name, orig.Data)))

\* a Block with a name and data whose Header was never filled in has been
\* encoded: its bytes begin with eight zero bytes
C13_Witness ==
  /\ pc = "encoded" /\ kind = "block"
  /\ orig.Header = ZeroHeader
  /\ Len(orig.Name) = 1 /\ Len(orig.Data) = 1
  /\ Take(enc, 8) = Zeros(8)
  /\ Len(enc) = 24

(***************************************************************************)
(* C14: an encode into a sink that fails.                                  *)
(***************************************************************************)
\* the writes the encode of orig issues, in wire order
EncodeSteps ==
  CASE kind = "header" -> rioHeader_Steps(orig)
    [] kind = "record" -> rioRecord_Steps(orig)
    [] kind = "block"  -> rioBlock_Steps(orig)
    [] kind = "footer" -> rioFooter_Steps(orig)

\* the fields before the k-th write, and the bytes the sink took of the
\* write it failed
FieldsBefore(k) == Flatten([j \in 1..(k - 1) |-> EncodeSteps[j].bytes])
MovedByFailedWrite ==
  LET b == EncodeSteps[sink.failAt].bytes
  IN IF sink.mode = "reject" THEN << >> ELSE Take(b, Len(b) - 1)

\* the encode returned an error at the write the sink failed and issued no
\* write after it: the sink holds the fields before it and what it took of
\* the failed write
StoppedAtFailedWrite ==
  /\ err # nil
  /\ nwrites = sink.failAt
  /\ enc = FieldsBefore(sink.failAt) \o MovedByFailedWrite

\* C14, as stated: when a write of a Header, Record, Block or Footer encode
\* is rejected by the sink or moves fewer bytes than requested, the encode
\* returns an error at that write and issues no further write; the writes
\* made before it are the fields that precede it in wire order.
C14_FailedWriteStopsEncode ==
  pc = "failed" => StoppedAtFailedWrite

\* the encode stops at the failed write exactly when the sink returned an
\* error or the write is one whose count the codec compares; after a short
\* count with a nil error on any other write, the encode issues every later
\* write and returns nil
C14_ReportedFailureStopsEncode ==
  pc = "failed" =>
    LET step == EncodeSteps[sink.failAt]
    IN IF sink.mode # "short"
       THEN StoppedAtFailedWrite /\ err = step.msg
       ELSE IF step.checked
       THEN StoppedAtFailedWrite /\ err = errorf("rio: wrote too few bytes")
       ELSE /\ err = nil
            /\ nwrites = Len(EncodeSteps)
            /\ Len(enc) = Len(FieldsBefore(nwrites + 1)) - 1

\* a Record encode whose write of the name "abc" moved two bytes with a nil
\* error: it wrote the padding after it and returned nil
C14_SilentShortWrite ==
  /\ pc = "failed" /\ kind = "record"
  /\ Len(orig.Name) = 3
  /\ sink = [failAt |-> 7, mode |-> "short"]
  /\ err = nil
  /\ nwrites = 8
  /\ Len(enc) = 27

============================================================================
